---- MODULE Spec2Model ----
(***************************************************************************)
(* QuizBee (src/quiz_gen.py): the quiz session kept in st.session_state,   *)
(* the keyed radio widgets that hold the learner's selections, the scoring *)
(* loop of the Submit handler and the history file quiz_history.json.      *)
(*                                                                         *)
(* One action is one script run of app(), started by one interaction of    *)
(* the learner: pressing Generate, choosing a radio option, pressing       *)
(* Submit, pressing Retake.                                                *)
(***************************************************************************)
EXTENDS Integers, Sequences, FiniteSets, TLC

VARIABLES quiz, quiz_run_id, submitted, wrong_answers, widgets, history_file, last,
          writers, raw_output, output

vars == <<quiz, quiz_run_id, submitted, wrong_answers, widgets, history_file, last,
          writers, raw_output, output>>

\* The session fields, which the specifications of the history store, of the
\* leaderboard and of extract_json leave alone.
sessionVars == <<quiz, quiz_run_id, submitted, wrong_answers, widgets, last>>

\* The variables the session specification leaves alone: the processes inside
\* save_attempt, the provider's raw text and the value computed from an input.
offSession == <<writers, raw_output, output>>

(***************************************************************************)
(* Bounds of the model.                                                    *)
(***************************************************************************)
\* Longest "questions" list a provider payload carries.
MaxQuestions == 2
\* Most attempts the history file holds (Submit stops appending there).
MaxHist == 2
\* Largest run identifier (Retake stops incrementing there).
MaxRun == 2

\* Student names typed into the name field.
Names == {"ann"}

\* The value of a radio with no selection (index=None), Python's None.
None == "None"

(***************************************************************************)
(* Provider payloads: what request_quiz_json returns when it does not      *)
(* raise.  extract_json returns whatever JSON object the text holds; no    *)
(* field of it is checked.                                                 *)
(***************************************************************************)
\* Questions a payload may carry.  Q1x reuses id 1 with another text;
\* Q2bad names a correct_answer that is not a key of its options.
Q1 == [id |-> 1, question |-> "q1", options |-> [A |-> "a1", B |-> "b1"],
       correct_answer |-> "A", explanation |-> "e1"]
Q2 == [id |-> 2, question |-> "q2", options |-> [A |-> "a2", B |-> "b2", C |-> "c2"],
       correct_answer |-> "B", explanation |-> "e2"]
Q1x == [id |-> 1, question |-> "q1x", options |-> [A |-> "a1", B |-> "b1"],
        correct_answer |-> "B", explanation |-> "e1x"]
Q2bad == [id |-> 2, question |-> "q2", options |-> [A |-> "a2", B |-> "b2", C |-> "c2"],
          correct_answer |-> "D", explanation |-> "e2"]

QuestionPool == {Q1, Q2, Q1x, Q2bad}

\* The "questions" lists of the payloads: up to MaxQuestions questions of the
\* pool, none listed twice (two of them may still share an id).
QuestionLists ==
    UNION {{qs \in [1..n -> QuestionPool] : \A i, j \in 1..n : i # j => qs[i] # qs[j]} :
               n \in 0..MaxQuestions}

\* st.session_state.quiz = None
NoQuiz == [tag |-> "None", keys |-> {}, questions |-> <<>>]

\* A JSON object with the given top-level keys.
Dict(keys, questions) == [tag |-> "dict", keys |-> keys, questions |-> questions]

Payloads ==
    {Dict({"quiz_title", "questions"}, qs) : qs \in QuestionLists}
    \cup {Dict({}, <<>>), Dict({"other"}, <<>>),
          Dict({"quiz_title"}, <<>>), Dict({"questions"}, <<Q1>>)}

\* `if st.session_state.quiz:` -- None and the empty dict are falsy.
Truthy(qz) == qz.tag = "dict" /\ qz.keys # {}

(***************************************************************************)
(* The question radios, app() lines 222-231.  Streamlit keeps the state of *)
(* a keyed widget from one script run to the next while the widget is      *)
(* rendered; a widget left out of a run loses its state.  The widget       *)
(* st.radio(label, options, key=...) is the same widget as the one of the  *)
(* previous run when key, label and options are the same.                  *)
(*                                                                         *)
(* widgets maps a key <<run, id>> (f"q_{quiz_run_id}_{q['id']}") to the    *)
(* widget's signature, its current value and the disabled flag it was last *)
(* rendered with (the page keeps showing it that way until the next run).  *)
(***************************************************************************)
WidgetKey(run, q) == <<run, q.id>>

WidgetSig(q) == [label |-> <<q.id, q.question>>, options |-> DOMAIN q.options]

NoWidgets == [k \in {} |-> None]

\* What st.radio(..., index=None, key=...) returns for question q.
RadioValue(w, run, q) ==
    IF WidgetKey(run, q) \in DOMAIN w /\ w[WidgetKey(run, q)].sig = WidgetSig(q)
    THEN w[WidgetKey(run, q)].value
    ELSE None

\* Positions of the questions whose key was already used by an earlier
\* question of the same run: st.radio raises on a duplicate key.
DuplicateKeyAt(qs) == {i \in 1..Len(qs) : \E j \in 1..(i - 1) : qs[j].id = qs[i].id}

SetMin(S) == CHOOSE x \in S : \A y \in S : x <= y

\* How many radios lines 219-231 render before the run ends or raises:
\* quiz["quiz_title"] (219) and quiz["questions"] (223) raise KeyError on a
\* missing key.
RenderedCount(qz) ==
    IF ~Truthy(qz) \/ "quiz_title" \notin qz.keys \/ "questions" \notin qz.keys
    THEN 0
    ELSE IF DuplicateKeyAt(qz.questions) = {}
         THEN Len(qz.questions)
         ELSE SetMin(DuplicateKeyAt(qz.questions)) - 1

\* The script run raises inside lines 219-231 and never reaches the buttons.
RenderRaises(qz) ==
    /\ Truthy(qz)
    /\ \/ "quiz_title" \notin qz.keys
       \/ "questions" \notin qz.keys
       \/ DuplicateKeyAt(qz.questions) # {}

\* The quiz block is shown whole: line 234 is reached.
Shown(qz) == Truthy(qz) /\ ~RenderRaises(qz)

\* The widget states after a script run that renders quiz qz under run
\* identifier run with disabled=disabled, starting from the widget states w.
RenderQuestions(qz, run, disabled, w) ==
    LET n == RenderedCount(qz)
        qAt(k) == qz.questions[CHOOSE i \in 1..n : WidgetKey(run, qz.questions[i]) = k]
    IN  [k \in {WidgetKey(run, qz.questions[i]) : i \in 1..n} |->
            [sig |-> WidgetSig(qAt(k)), value |-> RadioValue(w, run, qAt(k)),
             disabled |-> disabled]]

\* The learner picks option label of the radio shown for question q: the
\* widget state sent with the next script run.
Select(w, run, q, label) ==
    [k \in DOMAIN w |->
        IF k = WidgetKey(run, q) THEN [w[k] EXCEPT !.value = label] ELSE w[k]]

\* answers = {q["id"]: st.radio(...)}, lines 222-231, for a quiz that is shown.
Answers(qz, run, w) ==
    [id \in {qz.questions[i].id : i \in 1..Len(qz.questions)} |->
        RadioValue(w, run, qz.questions[CHOOSE i \in 1..Len(qz.questions) :
                                            qz.questions[i].id = id])]

\* A version of line 236 that rejects only when no question is answered.
HasUnansweredOnlyAll(answers) == \A id \in DOMAIN answers : answers[id] = None

\* `None in answers.values()`, line 236.
HasUnanswered(answers) == \E id \in DOMAIN answers : answers[id] = None

(***************************************************************************)
(* Scoring, app() lines 240-255.                                           *)
(***************************************************************************)
\* f"{label}. {q['options'][label]}"
FormatOption(q, label) == <<label, q.options[label]>>

\* A version of lines 250-255 that reports the selected option as the correct one.
WrongEntrySelectedAsCorrect(q, selected) ==
    [question |-> q.question,
     selected |-> FormatOption(q, selected),
     correct |-> FormatOption(q, selected),
     explanation |-> q.explanation]

\* The dict appended at lines 250-255.
WrongEntry(q, selected) ==
    [question |-> q.question,
     selected |-> FormatOption(q, selected),
     correct |-> FormatOption(q, q.correct_answer),
     explanation |-> q.explanation]

\* A version of the loop body that counts a question whatever was selected.
ScoreStepCountsAll(acc, q, selected) ==
    IF selected = q.correct_answer
    THEN [acc EXCEPT !.score = @ + 1]
    ELSE IF selected \notin DOMAIN q.options \/ q.correct_answer \notin DOMAIN q.options
         THEN [acc EXCEPT !.raised = TRUE]
         ELSE [acc EXCEPT !.score = @ + 1, !.wrong = Append(@, WrongEntry(q, selected))]

\* One iteration of the loop of line 243.  q['options'][selected] (252) and
\* q['options'][correct] (253) raise KeyError when the label is not a key of
\* the options.
ScoreStep(acc, q, selected) ==
    IF selected = q.correct_answer
    THEN [acc EXCEPT !.score = @ + 1]
    ELSE IF selected \notin DOMAIN q.options \/ q.correct_answer \notin DOMAIN q.options
         THEN [acc EXCEPT !.raised = TRUE]
         ELSE [acc EXCEPT !.wrong = Append(@, WrongEntry(q, selected))]

RECURSIVE ScoreLoop(_, _, _, _)
ScoreLoop(qs, answers, i, acc) ==
    IF i > Len(qs) \/ acc.raised
    THEN acc
    ELSE ScoreLoop(qs, answers, i + 1, ScoreStep(acc, qs[i], answers[qs[i].id]))

\* Lines 240-255: [raised, score, wrong].
Score(qz, answers) ==
    ScoreLoop(qz.questions, answers, 1, [raised |-> FALSE, score |-> 0, wrong |-> <<>>])

(***************************************************************************)
(* The history file quiz_history.json, lines 140-167.                      *)
(*                                                                         *)
(* history_file is what the file system holds: the file is absent, holds   *)
(* text that is not JSON ("corrupt"), holds a JSON value that is not a     *)
(* list ("object"), or holds a JSON list of attempts ("list").  A list is  *)
(* stored as its serialised rows.                                          *)
(***************************************************************************)
\* round((score / total) * 100, 2), in hundredths of a percent (total > 0).
Percentage(score, total) == (2 * score * 10000 + total) \div (2 * total)

\* The attempt dict of lines 141-148 (age and time are carried like name).
Attempt(name, score, total) ==
    [name |-> name, score |-> score, total |-> total,
     percentage |-> Percentage(score, total)]

\* json.dump / json.load of one attempt.
DumpAttempt(a) == <<a.name, a.score, a.total, a.percentage>>
LoadAttempt(row) ==
    [name |-> row[1], score |-> row[2], total |-> row[3], percentage |-> row[4]]

AbsentFile == [kind |-> "absent", rows |-> <<>>]
CorruptFile == [kind |-> "corrupt", rows |-> <<>>]
ObjectFile == [kind |-> "object", rows |-> <<>>]

\* json.dump(data, f, indent=2) of a list, line 159.
JsonDump(data) == [kind |-> "list", rows |-> [i \in 1..Len(data) |-> DumpAttempt(data[i])]]

\* open(HISTORY_FILE, "r") and json.load(f): raises on an absent file and
\* on text that is not JSON; [raised, isList, data].
JsonLoad(file) ==
    [raised |-> file.kind \in {"absent", "corrupt"},
     isList |-> file.kind = "list",
     data |-> [i \in 1..Len(file.rows) |-> LoadAttempt(file.rows[i])]]

\* Lines 150-154: data is the loaded value, or [] when reading raised.
ReadData(file) ==
    IF JsonLoad(file).raised
    THEN [isList |-> TRUE, data |-> <<>>]
    ELSE [isList |-> JsonLoad(file).isList, data |-> JsonLoad(file).data]

\* A version of line 156 that puts the new attempt first.
AppendAttemptFront(data, attempt) == <<attempt>> \o data

\* data.append(attempt), line 156.
AppendAttempt(data, attempt) == Append(data, attempt)

\* save_attempt(name, age, score, total): [raised, file].  score / total
\* (146) raises ZeroDivisionError for total = 0; data.append (156) raises
\* AttributeError when the file held JSON that is not a list.
save_attempt(file, name, score, total) ==
    IF total = 0 \/ ~ReadData(file).isList
    THEN [raised |-> TRUE, file |-> file]
    ELSE [raised |-> FALSE,
          file |-> JsonDump(AppendAttempt(ReadData(file).data, Attempt(name, score, total)))]

\* load_history(), lines 162-167, when the file holds a list or cannot be read.
load_history(file) == IF JsonLoad(file).raised THEN <<>> ELSE JsonLoad(file).data

\* What load_history() hands to its caller: a list (the stored one, or []
\* when reading raised), or the stored JSON value that is not a list.
LoadedHistory(file) ==
    [isList |-> JsonLoad(file).raised \/ JsonLoad(file).isList,
     data |-> load_history(file)]

(***************************************************************************)
(* The session.                                                            *)
(***************************************************************************)
\* No process is inside save_attempt, no text is being extracted, nothing
\* has been computed.
NoWriters == [w \in {} |-> None]
NoText == <<>>
NoOutput == [kind |-> "none"]

\* What the last script run did.
Did(op, outcome, score, total) ==
    [op |-> op, outcome |-> outcome, score |-> score, total |-> total]

\* Lines 187-198, and the history file as the program finds it.
Init ==
    /\ quiz = NoQuiz
    /\ quiz_run_id = 0
    /\ submitted = FALSE
    /\ wrong_answers = <<>>
    /\ widgets = NoWidgets
    /\ history_file \in {AbsentFile, CorruptFile, ObjectFile, JsonDump(<<>>)}
    /\ last = Did("init", "none", 0, 0)
    /\ writers = NoWriters
    /\ raw_output = NoText
    /\ output = NoOutput

\* A version of the except branch without line 214.
GenerateFailsKeepsQuiz ==
    /\ widgets' = NoWidgets
    /\ last' = Did("generate", "failed", 0, 0)
    /\ UNCHANGED <<quiz, quiz_run_id, submitted, wrong_answers, history_file, offSession>>

\* A version in which the resets of lines 207-209 run before the failure.
GenerateFailsResets ==
    /\ quiz' = NoQuiz
    /\ submitted' = FALSE
    /\ quiz_run_id' = 0
    /\ wrong_answers' = <<>>
    /\ widgets' = NoWidgets
    /\ last' = Did("generate", "failed", 0, 0)
    /\ UNCHANGED <<history_file, offSession>>

\* Generate pressed and request_quiz_json raises (the provider call fails, or
\* extract_json returns None): lines 211-215.  No radio is rendered.
GenerateFails ==
    /\ quiz' = NoQuiz
    /\ widgets' = NoWidgets
    /\ last' = Did("generate", "failed", 0, 0)
    /\ UNCHANGED <<quiz_run_id, submitted, wrong_answers, history_file, offSession>>

\* Generate pressed and request_quiz_json returns payload: lines 204-210,
\* then the quiz block of the same run (Submit is not pressed in it).
GenerateSucceeds(payload) ==
    /\ quiz' = payload
    /\ submitted' = FALSE
    /\ quiz_run_id' = 0
    /\ wrong_answers' = <<>>
    /\ widgets' = RenderQuestions(payload, 0, FALSE, widgets)
    /\ last' = Did("generate", IF RenderRaises(payload) THEN "render_raised" ELSE "ok", 0, 0)
    /\ UNCHANGED <<history_file, offSession>>

Generate ==
    \/ GenerateFails
    \/ \E payload \in Payloads : GenerateSucceeds(payload)

\* The learner chooses an option of a radio the page shows enabled; the
\* script reruns with that selection (no button is pressed in the run).
SelectAnswer ==
    /\ \E i \in 1..RenderedCount(quiz) :
         \E label \in DOMAIN quiz.questions[i].options :
            /\ WidgetKey(quiz_run_id, quiz.questions[i]) \in DOMAIN widgets
            /\ ~widgets[WidgetKey(quiz_run_id, quiz.questions[i])].disabled
            /\ widgets' = RenderQuestions(quiz, quiz_run_id, submitted,
                              Select(widgets, quiz_run_id, quiz.questions[i], label))
    /\ last' = Did("select", IF RenderRaises(quiz) THEN "render_raised" ELSE "ok", 0, 0)
    /\ UNCHANGED <<quiz, quiz_run_id, submitted, wrong_answers, history_file, offSession>>

\* A version of line 234 without `and not st.session_state.submitted`: a
\* Submit pressed while submitted is set scores and saves again.
SubmitAgainScores ==
    /\ Shown(quiz)
    /\ submitted
    /\ ~HasUnanswered(Answers(quiz, quiz_run_id, widgets))
    /\ ~Score(quiz, Answers(quiz, quiz_run_id, widgets)).raised
    /\ Len(ReadData(history_file).data) < MaxHist
    /\ wrong_answers' = Score(quiz, Answers(quiz, quiz_run_id, widgets)).wrong
    /\ history_file' = save_attempt(history_file, "ann",
                            Score(quiz, Answers(quiz, quiz_run_id, widgets)).score,
                            Len(quiz.questions)).file
    /\ widgets' = RenderQuestions(quiz, quiz_run_id, submitted, widgets)
    /\ last' = Did("submit", "saved", 0, 0)
    /\ UNCHANGED <<quiz, quiz_run_id, submitted, offSession>>

\* Submit pressed while submitted is set: the condition of line 234 is false.
SubmitIgnored ==
    /\ Shown(quiz)
    /\ submitted
    /\ widgets' = RenderQuestions(quiz, quiz_run_id, submitted, widgets)
    /\ last' = Did("submit", "ignored", 0, 0)
    /\ UNCHANGED <<quiz, quiz_run_id, submitted, wrong_answers, history_file, offSession>>

\* Submit pressed with a question unanswered: lines 236-238.
SubmitRejected ==
    /\ Shown(quiz)
    /\ ~submitted
    /\ HasUnanswered(Answers(quiz, quiz_run_id, widgets))
    /\ widgets' = RenderQuestions(quiz, quiz_run_id, submitted, widgets)
    /\ last' = Did("submit", "rejected", 0, 0)
    /\ UNCHANGED <<quiz, quiz_run_id, submitted, wrong_answers, history_file, offSession>>

\* Submit pressed, every question answered, and line 253 raises KeyError
\* before anything is stored.
SubmitScoreRaises ==
    /\ Shown(quiz)
    /\ ~submitted
    /\ ~HasUnanswered(Answers(quiz, quiz_run_id, widgets))
    /\ Score(quiz, Answers(quiz, quiz_run_id, widgets)).raised
    /\ widgets' = RenderQuestions(quiz, quiz_run_id, submitted, widgets)
    /\ last' = Did("submit", "score_raised", 0, 0)
    /\ UNCHANGED <<quiz, quiz_run_id, submitted, wrong_answers, history_file, offSession>>

\* Submit pressed, every question answered, scoring completes: lines 257-261.
\* The session fields are stored before save_attempt is called.
SubmitScored(name) ==
    LET result == Score(quiz, Answers(quiz, quiz_run_id, widgets))
        total == Len(quiz.questions)
        saved == save_attempt(history_file, name, result.score, total)
    IN  /\ Shown(quiz)
        /\ ~submitted
        /\ ~HasUnanswered(Answers(quiz, quiz_run_id, widgets))
        /\ ~result.raised
        /\ Len(ReadData(history_file).data) < MaxHist
        /\ wrong_answers' = result.wrong
        /\ submitted' = TRUE
        /\ history_file' = saved.file
        /\ widgets' = RenderQuestions(quiz, quiz_run_id, submitted, widgets)
        /\ last' = Did("submit", IF saved.raised THEN "save_raised" ELSE "saved",
                       result.score, total)
        /\ UNCHANGED <<quiz, quiz_run_id, offSession>>

Submit ==
    \/ SubmitIgnored
    \/ SubmitRejected
    \/ SubmitScoreRaises
    \/ \E name \in Names : SubmitScored(name)

\* A version of line 292 that keeps the run identifier.
NextRunIdSame(run) == run

\* The run identifier of the next pass, line 292.
NextRunId(run) == run + 1

\* The Retake button is on the page: the last run reached line 289 with
\* submitted set (a run that raised in save_attempt did not).
RetakeShown == Shown(quiz) /\ submitted /\ last.outcome # "save_raised"

\* A version of the Retake handler that also drops the quiz.
RetakeClearsQuiz ==
    /\ RetakeShown
    /\ quiz_run_id < MaxRun
    /\ submitted' = FALSE
    /\ wrong_answers' = <<>>
    /\ quiz_run_id' = NextRunId(quiz_run_id)
    /\ quiz' = NoQuiz
    /\ widgets' = NoWidgets
    /\ last' = Did("retake", "ok", 0, 0)
    /\ UNCHANGED <<history_file, offSession>>

\* A version of the Retake handler without line 291.
RetakeKeepsMissed ==
    /\ RetakeShown
    /\ quiz_run_id < MaxRun
    /\ submitted' = FALSE
    /\ quiz_run_id' = NextRunId(quiz_run_id)
    /\ widgets' = RenderQuestions(quiz, quiz_run_id', FALSE,
                      RenderQuestions(quiz, quiz_run_id, submitted, widgets))
    /\ last' = Did("retake", "ok", 0, 0)
    /\ UNCHANGED <<quiz, wrong_answers, history_file, offSession>>

\* Retake pressed: lines 289-293, and the rerun st.rerun() starts.
Retake ==
    /\ RetakeShown
    /\ quiz_run_id < MaxRun
    /\ submitted' = FALSE
    /\ wrong_answers' = <<>>
    /\ quiz_run_id' = NextRunId(quiz_run_id)
    /\ widgets' = RenderQuestions(quiz, quiz_run_id', FALSE,
                      RenderQuestions(quiz, quiz_run_id, submitted, widgets))
    /\ last' = Did("retake", "ok", 0, 0)
    /\ UNCHANGED <<quiz, history_file, offSession>>

Next == Generate \/ SelectAnswer \/ Submit \/ Retake

Spec == Init /\ [][Next]_vars

(***************************************************************************)
(* The leaderboard, app() lines 299-304, as a function of the history      *)
(* file: SpecBoard draws a file and shows its leaderboard.                 *)
(***************************************************************************)
\* Longest history list SpecBoard draws.
MaxBoard == 3

\* history[:10], line 302.
TableRows == 10

\* Attempts of the drawn histories: 90, 100, 75 and again 100 percent.
BoardAttempts ==
    {Attempt("ann", 9, 10), Attempt("ann", 1, 1), Attempt("ann", 3, 4), Attempt("bob", 2, 2)}

BoardHistories == UNION {[1..n -> BoardAttempts] : n \in 0..MaxBoard}

\* A version of the sort that puts an attempt before those of equal percentage.
InsertBeforeEqual(ranked, a) ==
    LET k == Cardinality({i \in 1..Len(ranked) : ranked[i].percentage > a.percentage})
    IN  SubSeq(ranked, 1, k) \o <<a>> \o SubSeq(ranked, k + 1, Len(ranked))

\* sorted(..., key=lambda x: x["percentage"], reverse=True) is stable: an
\* attempt goes behind every attempt already ranked whose percentage is not
\* smaller.
InsertRanked(ranked, a) ==
    LET k == Cardinality({i \in 1..Len(ranked) : ranked[i].percentage >= a.percentage})
    IN  SubSeq(ranked, 1, k) \o <<a>> \o SubSeq(ranked, k + 1, Len(ranked))

RECURSIVE SortedByPercentage(_, _, _)
SortedByPercentage(history, i, ranked) ==
    IF i > Len(history)
    THEN ranked
    ELSE SortedByPercentage(history, i + 1, InsertRanked(ranked, history[i]))

\* Lines 299-304: the table shown, or the info line for an empty history.
Leaderboard(file) ==
    LET history == load_history(file)
        ranked == SortedByPercentage(history, 1, <<>>)
    IN  IF history # <<>>
        THEN [kind |-> "table",
              rows |-> SubSeq(ranked, 1, IF Len(ranked) < TableRows THEN Len(ranked)
                                          ELSE TableRows)]
        ELSE [kind |-> "info"]

BoardInit ==
    /\ quiz = NoQuiz
    /\ quiz_run_id = 0
    /\ submitted = FALSE
    /\ wrong_answers = <<>>
    /\ widgets = NoWidgets
    /\ last = Did("init", "none", 0, 0)
    /\ writers = NoWriters
    /\ raw_output = NoText
    /\ history_file \in {AbsentFile, CorruptFile} \cup {JsonDump(h) : h \in BoardHistories}
    /\ output = NoOutput

\* A script run reaches line 299 and shows the leaderboard.
ShowLeaderboard ==
    /\ output = NoOutput
    /\ output' = Leaderboard(history_file)
    /\ UNCHANGED <<sessionVars, history_file, writers, raw_output>>

BoardNext == ShowLeaderboard

SpecBoard == BoardInit /\ [][BoardNext]_vars

(***************************************************************************)
(* save_attempt, lines 140-159, statement by statement: SpecStore runs     *)
(* MaxWriters processes that each call save_attempt once on the same       *)
(* file, with no lock.  writers[w] is process w's position in the function *)
(* and its local `data`; output records what the file held at the start    *)
(* and the order in which the processes finished.                          *)
(***************************************************************************)
\* Processes that call save_attempt on the same file.
MaxWriters == 2

Writers == 1..MaxWriters

\* The attempt of process w: a name of its own and a score of w out of w.
WriterAttempt(w) == Attempt(<<"writer", w>>, w, w)

\* An attempt stored before the processes start.
EarlierAttempt == Attempt("ann", 1, 2)

\* open(HISTORY_FILE, "w") leaves an empty file, which is not JSON.
TruncatedFile == CorruptFile

IdleWriter(w) == [pc |-> "idle", attempt |-> WriterAttempt(w), isList |-> TRUE, data |-> <<>>]

StoreInit ==
    /\ quiz = NoQuiz
    /\ quiz_run_id = 0
    /\ submitted = FALSE
    /\ wrong_answers = <<>>
    /\ widgets = NoWidgets
    /\ last = Did("init", "none", 0, 0)
    /\ raw_output = NoText
    /\ history_file \in {AbsentFile, CorruptFile, ObjectFile,
                          JsonDump(<<>>), JsonDump(<<EarlierAttempt>>)}
    /\ writers = [w \in Writers |-> IdleWriter(w)]
    /\ output = [kind |-> "store", base |-> load_history(history_file),
                 serial |-> TRUE, finished |-> <<>>]

\* Process w is between its read of the file and the end of its write.
InCycle(w) == writers[w].pc \in {"read", "appended", "opened"}

\* Lines 150-154: process w reads the file into data.
StoreRead(w) ==
    /\ writers[w].pc = "idle"
    /\ writers' = [writers EXCEPT ![w].pc = "read",
                                  ![w].isList = ReadData(history_file).isList,
                                  ![w].data = ReadData(history_file).data]
    /\ output' = [output EXCEPT !.serial = @ /\ ~\E v \in Writers : InCycle(v)]
    /\ UNCHANGED <<sessionVars, history_file, raw_output>>

\* Line 156: data.append(attempt); raises when data is not a list.
StoreAppend(w) ==
    /\ writers[w].pc = "read"
    /\ writers' = IF writers[w].isList
                  THEN [writers EXCEPT ![w].pc = "appended",
                                       ![w].data = AppendAttempt(@, writers[w].attempt)]
                  ELSE [writers EXCEPT ![w].pc = "raised"]
    /\ UNCHANGED <<sessionVars, history_file, raw_output, output>>

\* Line 158: open(HISTORY_FILE, "w") truncates the file.
StoreOpen(w) ==
    /\ writers[w].pc = "appended"
    /\ writers' = [writers EXCEPT ![w].pc = "opened"]
    /\ history_file' = TruncatedFile
    /\ UNCHANGED <<sessionVars, raw_output, output>>

\* What the file holds after process w wrote data from offset 0 of its
\* handle: its list, or, when another process wrote since w opened the file,
\* possibly its text followed by the rest of the longer text of the other.
WrittenFiles(file, data) ==
    IF file = TruncatedFile THEN {JsonDump(data)} ELSE {JsonDump(data), CorruptFile}

\* A version of line 159 in which the list of the process that finished first
\* stays in the file.
StoreWriteFirstWins(w) ==
    /\ writers[w].pc = "opened"
    /\ writers' = [writers EXCEPT ![w].pc = "done"]
    /\ history_file' = IF output.finished = <<>>
                       THEN JsonDump(writers[w].data)
                       ELSE JsonDump(writers[output.finished[1]].data)
    /\ output' = [output EXCEPT !.finished = Append(@, w)]
    /\ UNCHANGED <<sessionVars, raw_output>>

\* Line 159 and the end of the with block: json.dump(data, f) and close.
StoreWrite(w) ==
    /\ writers[w].pc = "opened"
    /\ writers' = [writers EXCEPT ![w].pc = "done"]
    /\ history_file' \in WrittenFiles(history_file, writers[w].data)
    /\ output' = [output EXCEPT !.finished = Append(@, w)]
    /\ UNCHANGED <<sessionVars, raw_output>>

\* Process w is stopped between line 158 and the end of line 159.
StoreInterrupted(w) ==
    /\ writers[w].pc = "opened"
    /\ writers' = [writers EXCEPT ![w].pc = "interrupted"]
    /\ UNCHANGED <<sessionVars, history_file, raw_output, output>>

StoreNext ==
    \E w \in Writers :
        \/ StoreRead(w)
        \/ StoreAppend(w)
        \/ StoreOpen(w)
        \/ StoreWrite(w)
        \/ StoreInterrupted(w)

SpecStore == StoreInit /\ [][StoreNext]_vars

(***************************************************************************)
(* extract_json and request_quiz_json, lines 32-56 and 103-110.            *)
(* SpecExtract hands every text of at most MaxText tokens to               *)
(* request_quiz_json.  A text is a sequence of tokens: the braces, a       *)
(* member of an object ("m"), a member whose string value holds a fence    *)
(* ("f"; "g" is the same member with the fence taken out of the string),   *)
(* a fence, the language tag, whitespace and a word of prose.              *)
(***************************************************************************)
\* Longest text, in tokens.
MaxText == 4

Tokens == {"{", "}", "m", "f", "fence", "json", " ", "x"}

Texts == UNION {[1..n -> Tokens] : n \in 0..MaxText}

SetMax(S) == CHOOSE x \in S : \A y \in S : x >= y

\* text.strip()
strip(text) ==
    LET kept == {i \in 1..Len(text) : text[i] # " "}
    IN IF kept = {} THEN <<>> ELSE SubSeq(text, SetMin(kept), SetMax(kept))

\* text.startswith(fence), line 41.
startswith_fence(text) == Len(text) > 0 /\ text[1] = "fence"

\* text.replace(tagged fence, ""), line 42: one pass from the left.
RECURSIVE replace_tagged_fence(_)
replace_tagged_fence(text) ==
    IF Len(text) < 2 THEN text
    ELSE IF text[1] = "fence" /\ text[2] = "json"
         THEN replace_tagged_fence(SubSeq(text, 3, Len(text)))
         ELSE <<text[1]>> \o replace_tagged_fence(Tail(text))

\* text.replace(fence, ""), line 42: every fence goes, those inside a string too.
replace_fence(text) ==
    LET outside == SelectSeq(text, LAMBDA tok : tok # "fence")
    IN [i \in 1..Len(outside) |-> IF outside[i] = "f" THEN "g" ELSE outside[i]]

\* Line 42.
strip_fences(text) == strip(replace_fence(replace_tagged_fence(text)))

\* text.find(tok): index from 0, -1 when absent.
find(text, tok) ==
    IF \E i \in 1..Len(text) : text[i] = tok
    THEN SetMin({i \in 1..Len(text) : text[i] = tok}) - 1
    ELSE -1

\* A version of rfind that returns the first index.
rfind_first(text, tok) == find(text, tok)

\* text.rfind(tok)
rfind(text, tok) ==
    IF \E i \in 1..Len(text) : text[i] = tok
    THEN SetMax({i \in 1..Len(text) : text[i] = tok}) - 1
    ELSE -1

\* text[start:end+1]
Slice(text, start, end) == SubSeq(text, start + 1, end + 1)

NoneValue == [kind |-> "None", items |-> {}]
JSONDecodeError == [kind |-> "JSONDecodeError", items |-> {}]

\* The key and the value of a member.
Member(tok) ==
    CASE tok = "m" -> <<"k", "v">>
      [] tok = "f" -> <<"e", "a fence b">>
      [] tok = "g" -> <<"e", "a  b">>

\* dict[key] = value, a later member replacing an earlier one of the same key.
SetItem(items, member) == {it \in items : it[1] # member[1]} \cup {member}

\* json.loads after the opening brace: members up to the closing brace, then
\* nothing but whitespace.
RECURSIVE LoadMembers(_, _)
LoadMembers(text, items) ==
    IF text = <<>> THEN JSONDecodeError
    ELSE CASE Head(text) = " " -> LoadMembers(Tail(text), items)
           [] Head(text) \in {"m", "f", "g"} ->
                  LoadMembers(Tail(text), SetItem(items, Member(Head(text))))
           [] Head(text) = "}" ->
                  IF strip(Tail(text)) = <<>>
                  THEN [kind |-> "dict", items |-> items]
                  ELSE JSONDecodeError
           [] OTHER -> JSONDecodeError

\* json.loads(json_text)
json_loads(text) ==
    IF strip(text) # <<>> /\ Head(strip(text)) = "{"
    THEN LoadMembers(Tail(strip(text)), {})
    ELSE JSONDecodeError

\* extract_json(text), lines 32-56.
extract_json(text) ==
    IF text = <<>> THEN NoneValue
    ELSE LET stripped == strip(text)
             cleaned == IF startswith_fence(stripped)
                        THEN strip_fences(stripped) ELSE stripped
             start == find(cleaned, "{")
             end == rfind(cleaned, "}")
         IN IF start = -1 \/ end = -1 THEN NoneValue
            ELSE IF json_loads(Slice(cleaned, start, end)) = JSONDecodeError
                 THEN NoneValue
                 ELSE json_loads(Slice(cleaned, start, end))

\* request_quiz_json from line 103: the quiz, or ValueError.
request_quiz_json(text) ==
    IF extract_json(text) = NoneValue
    THEN [kind |-> "raised", value |-> NoneValue]
    ELSE [kind |-> "returned", value |-> extract_json(text)]

ExtractInit ==
    /\ quiz = NoQuiz
    /\ quiz_run_id = 0
    /\ submitted = FALSE
    /\ wrong_answers = <<>>
    /\ widgets = NoWidgets
    /\ last = Did("init", "none", 0, 0)
    /\ history_file = AbsentFile
    /\ writers = NoWriters
    /\ raw_output \in Texts
    /\ output = NoOutput

RequestQuizJson ==
    /\ output = NoOutput
    /\ output' = request_quiz_json(raw_output)
    /\ UNCHANGED <<sessionVars, history_file, writers, raw_output>>

ExtractNext == RequestQuizJson

SpecExtract == ExtractInit /\ [][ExtractNext]_vars

(***************************************************************************)
(* Properties.                                                             *)
(***************************************************************************)
\* The last script run was a Submit that reached line 257 (scoring completed).
Scored == last.op = "submit" /\ last.outcome \in {"saved", "save_raised"}

\* The selection the page holds for the i-th question of the quiz.
Selected(i) == RadioValue(widgets, quiz_run_id, quiz.questions[i])

\* C1: whenever the session enters Submitted, the history store has grown by
\* exactly one record, which carries the pass's score and total.
C1_SubmittedAppendsOneRecord ==
    [][(~submitted /\ submitted') =>
          LET old == load_history(history_file)
              new == load_history(history_file')
          IN  /\ history_file'.kind = "list"
              /\ Len(new) = Len(old) + 1
              /\ SubSeq(new, 1, Len(old)) = old
              /\ new[Len(new)].score = last'.score
              /\ new[Len(new)].total = last'.total]_vars

\* C2: a Submit pressed in Answering while some question has no selection
\* is rejected: submitted stays false, the missed list and the history file
\* are unchanged and nothing is scored.
C2_IncompleteSubmitRejected ==
    [][(/\ last'.op = "submit"
        /\ ~submitted
        /\ \E i \in 1..Len(quiz.questions) : Selected(i) = None)
       => /\ last'.outcome = "rejected"
          /\ submitted' = FALSE
          /\ wrong_answers' = wrong_answers
          /\ history_file' = history_file]_vars

\* C2 witness: a Submit was rejected with one question answered and one not.
C2_Witness ==
    /\ last.op = "submit" /\ last.outcome = "rejected"
    /\ Len(quiz.questions) = 2
    /\ Selected(1) # None
    /\ Selected(2) = None

\* C3: after scoring a complete answer set, 0 <= score <= total and
\* len(missed) = total - score, total being the number of questions.
C3_ScoreBounds ==
    Scored =>
        /\ last.total = Len(quiz.questions)
        /\ 0 <= last.score
        /\ last.score <= last.total
        /\ Len(wrong_answers) = last.total - last.score

\* C3 witness: a two-question quiz scored 1 of 2.
C3_Witness == Scored /\ last.total = 2 /\ last.score = 1 /\ Len(wrong_answers) = 1

\* The positions of the questions answered wrongly.
WrongPositions == {i \in 1..Len(quiz.questions) : Selected(i) # quiz.questions[i].correct_answer}

\* C4: after a successful Submit the missed list has exactly one entry per
\* question whose selected label differs from its correct label, in quiz
\* order, each carrying the question's text, the selected label and the
\* correct label.
C4_MissedExactlyTheWrongOnes ==
    Scored =>
        /\ Len(wrong_answers) = Cardinality(WrongPositions)
        /\ \A i \in WrongPositions :
              LET k == Cardinality({j \in WrongPositions : j <= i})
              IN  /\ wrong_answers[k].question = quiz.questions[i].question
                  /\ wrong_answers[k].selected[1] = Selected(i)
                  /\ wrong_answers[k].correct[1] = quiz.questions[i].correct_answer
                  /\ wrong_answers[k].correct[2] =
                         quiz.questions[i].options[quiz.questions[i].correct_answer]

\* C4 witness: Q1 (correct A) answered A and Q2 (correct B) answered C give
\* score 1 of 2 and one missed entry, for Q2, with correct label B.
C4_Witness ==
    /\ Scored
    /\ quiz.questions = <<Q1, Q2>>
    /\ Selected(1) = "A" /\ Selected(2) = "C"
    /\ last.score = 1 /\ last.total = 2
    /\ Len(wrong_answers) = 1
    /\ wrong_answers[1].question = Q2.question
    /\ wrong_answers[1].correct[1] = "B"

\* C5: the session never holds a payload that lacks quiz_title or questions
\* or whose questions list is empty.
C5_HeldQuizIsValidated ==
    Truthy(quiz) =>
        /\ "quiz_title" \in quiz.keys
        /\ "questions" \in quiz.keys
        /\ Len(quiz.questions) > 0

\* C6: every question of the held quiz has a correct label that is a key of
\* its options, and scoring a complete answer set never raises.
C6_CorrectLabelIsAnOption ==
    /\ \A i \in 1..Len(quiz.questions) :
          quiz.questions[i].correct_answer \in DOMAIN quiz.questions[i].options
    /\ last.outcome # "score_raised"

\* C7: right after a successful Generate the missed list is empty and every
\* question of the new quiz is unanswered.
C7_GenerateResetsAnswers ==
    (last.op = "generate" /\ last.outcome = "ok") =>
        /\ wrong_answers = <<>>
        /\ \A i \in 1..Len(quiz.questions) : Selected(i) = None

\* C8: Retake, pressed in Submitted, leaves the session in Answering with an
\* empty missed list, the same quiz, a run identifier one greater and no
\* question selected.
C8_RetakeStartsFreshPass ==
    [][last'.op = "retake" =>
          /\ submitted /\ ~submitted'
          /\ wrong_answers' = <<>>
          /\ quiz_run_id' = quiz_run_id + 1
          /\ quiz' = quiz
          /\ \A i \in 1..Len(quiz'.questions) :
                RadioValue(widgets', quiz_run_id', quiz'.questions[i]) = None]_vars

\* C8 witness: a second pass over a two-question quiz has just started.
C8_Witness ==
    /\ last.op = "retake"
    /\ quiz_run_id = 1
    /\ Len(quiz.questions) = 2
    /\ \A i \in 1..2 : Selected(i) = None

\* C9: when Generate fails with a quiz loaded, the session still holds that
\* quiz and is in the state it was in.
C9_FailedGenerateKeepsQuiz ==
    [][(last'.op = "generate" /\ last'.outcome = "failed" /\ Shown(quiz)) =>
          /\ quiz' = quiz
          /\ submitted' = submitted]_vars

\* C9 as amended: when Generate fails, the submitted flag, the missed list
\* and the run identifier are kept, and the session holds no quiz.
C9_FailedGenerateClearsQuiz ==
    [][(last'.op = "generate" /\ last'.outcome = "failed") =>
          /\ quiz' = NoQuiz
          /\ submitted' = submitted
          /\ wrong_answers' = wrong_answers
          /\ quiz_run_id' = quiz_run_id]_vars

\* C9 witness: Generate failed in Submitted with a missed question, on the
\* second pass.
C9_Witness ==
    /\ last.op = "generate" /\ last.outcome = "failed"
    /\ quiz = NoQuiz
    /\ submitted
    /\ wrong_answers # <<>>
    /\ quiz_run_id = 1

\* C10: when the file is absent or holds a list, a save_attempt that
\* completes leaves a file from which load_history returns the previous list,
\* unchanged and in order, followed by the new attempt.
C10_AppendKeepsEarlierRecords ==
    [][(/\ last'.op = "submit" /\ last'.outcome = "saved"
        /\ history_file.kind \in {"absent", "list"})
       => \E name \in Names :
             load_history(history_file') =
                 Append(load_history(history_file),
                        Attempt(name, last'.score, last'.total))]_vars

\* C10 witness: an attempt was appended to a list that held a different one.
C10_Witness ==
    /\ last.op = "submit" /\ last.outcome = "saved"
    /\ Len(load_history(history_file)) = 2
    /\ load_history(history_file)[1] # load_history(history_file)[2]

\* C11: whatever the history file holds (absent, not JSON, JSON that is not
\* a list), save_attempt completes, treating the store as empty history, and
\* load_history returns a list; no failure reaches the caller.
C11_StorageProblemsAbsorbed ==
    (Scored /\ last.total > 0) =>
        /\ last.outcome = "saved"
        /\ LoadedHistory(history_file).isList

\* C16: a Submit pressed while the session is Submitted changes neither the
\* submitted flag, the missed list, the run identifier, the quiz nor the
\* history file: no second record is appended for the pass.
C16_SubmitInSubmittedChangesNothing ==
    [][(last'.op = "submit" /\ submitted) =>
          /\ submitted' = submitted
          /\ wrong_answers' = wrong_answers
          /\ quiz_run_id' = quiz_run_id
          /\ quiz' = quiz
          /\ history_file' = history_file]_vars

\* C16 witness: Submit was pressed again on a pass whose record is stored.
C16_Witness ==
    /\ last.op = "submit" /\ last.outcome = "ignored"
    /\ submitted
    /\ Len(load_history(history_file)) = 1

\* C17: a failed Generate clears the quiz and leaves the submitted flag, the
\* missed list, the run identifier and the history file as they were.
C17_FailedGenerateFrame ==
    [][(last'.op = "generate" /\ last'.outcome = "failed") =>
          /\ ~Truthy(quiz')
          /\ submitted' = submitted
          /\ wrong_answers' = wrong_answers
          /\ quiz_run_id' = quiz_run_id
          /\ history_file' = history_file]_vars

\* C17 witness: Generate failed in Submitted, on the second pass, with a
\* missed question and a stored record.
C17_Witness ==
    /\ last.op = "generate" /\ last.outcome = "failed"
    /\ ~Truthy(quiz)
    /\ submitted
    /\ Len(wrong_answers) = 1
    /\ quiz_run_id = 1
    /\ Len(load_history(history_file)) = 2

\* C18: only a Generate changes or clears the quiz: selecting an answer,
\* Submit (accepted, rejected or ignored) and Retake leave it as it is.
C18_QuizImmutableBetweenGenerates ==
    [][last'.op # "generate" => quiz' = quiz]_vars

\* C18 witness: the same two-question quiz was submitted on its second pass.
C18_Witness ==
    /\ last.op = "submit" /\ last.outcome = "saved"
    /\ quiz_run_id = 1
    /\ Len(quiz.questions) = 2

\* C20: while the submitted flag is false the missed list is empty.
C20_MissedOnlyWhileSubmitted == ~submitted => wrong_answers = <<>>

\* C20 witness: a second pass has started on a quiz whose first pass, stored
\* in the history, missed its question.
C20_Witness ==
    /\ last.op = "retake"
    /\ ~submitted
    /\ wrong_answers = <<>>
    /\ Len(quiz.questions) = 1
    /\ Len(load_history(history_file)) = 1
    /\ load_history(history_file)[1].score = 0

\* The attempts of a sequence that have percentage p, in their order.
WithPercentage(attempts, p) ==
    LET HasP(a) == a.percentage = p
    IN  SelectSeq(attempts, HasP)

\* C13: the leaderboard lists the attempts of load_history in descending
\* order of percentage, and attempts of equal percentage in their insertion
\* order.
C13_LeaderboardDescendingStable ==
    output.kind = "table" =>
        LET history == load_history(history_file)
            rows == output.rows
        IN  /\ Len(rows) = Len(history)
            /\ \A i, j \in 1..Len(rows) :
                  i < j => rows[i].percentage >= rows[j].percentage
            /\ \A a \in BoardAttempts :
                  WithPercentage(rows, a.percentage) = WithPercentage(history, a.percentage)

\* C13 witness: percentages 90, 100, 75 are shown as 100, 90, 75.
C13_Witness ==
    /\ output.kind = "table"
    /\ Len(load_history(history_file)) = 3
    /\ Len(output.rows) = 3
    /\ [i \in 1..3 |-> load_history(history_file)[i].percentage] = <<9000, 10000, 7500>>
    /\ [i \in 1..3 |-> output.rows[i].percentage] = <<10000, 9000, 7500>>

\* Every process has finished its append.
AllDone == \A w \in Writers : writers[w].pc = "done"

\* The processes whose attempt is in the stored list.
Kept(file) ==
    {w \in Writers : \E i \in 1..Len(load_history(file)) :
                        load_history(file)[i] = writers[w].attempt}

\* C12: while one process appends and no other has started, a reader of the
\* file gets the complete old list or the old list plus the new record,
\* never an empty or partial store.
C12_ReaderSeesOldOrNewList ==
    \A w \in Writers :
        (/\ writers[w].pc \in {"appended", "opened", "done", "interrupted"}
         /\ \A v \in Writers \ {w} : writers[v].pc = "idle")
        => load_history(history_file)
               \in {output.base, Append(output.base, writers[w].attempt)}

\* C19: once every process has finished its append, the file holds the list
\* of the process that wrote last (or the mixed text of two overlapping
\* writes); when no read-modify-write cycle overlapped another, that list is
\* the old list followed by every new record in order of completion; when
\* two cycles overlapped, at least one new record is missing.
C19_LastWriterWins ==
    AllDone =>
        LET lw == output.finished[MaxWriters]
        IN /\ history_file \in {JsonDump(writers[lw].data), CorruptFile}
           /\ output.serial =>
                  history_file = JsonDump(output.base \o
                      [i \in 1..MaxWriters |-> writers[output.finished[i]].attempt])
           /\ ~output.serial => Cardinality(Kept(history_file)) < MaxWriters

\* Two appends completed over a stored list, the file is a list, and it
\* holds the earlier record and only one of the two new records.
C19_Witness ==
    /\ AllDone
    /\ ~output.serial
    /\ output.base = <<EarlierAttempt>>
    /\ history_file.kind = "list"
    /\ Len(load_history(history_file)) = 2
    /\ load_history(history_file)[1] = EarlierAttempt
    /\ Cardinality(Kept(history_file)) = 1

\* The text has no "{", no "}", or the tokens from its first "{" to its last
\* "}" are not an object.
NoObjectBetweenBraces(text) ==
    LET opens == {i \in 1..Len(text) : text[i] = "{"}
        closes == {i \in 1..Len(text) : text[i] = "}"}
    IN \/ opens = {}
       \/ closes = {}
       \/ SetMax(closes) < SetMin(opens)
       \/ \E i \in (SetMin(opens) + 1)..(SetMax(closes) - 1) :
              text[i] \notin {" ", "m", "f", "g"}

\* What is left of the raw text at line 45.
Remaining(text) ==
    IF startswith_fence(strip(text)) THEN strip_fences(strip(text)) ELSE strip(text)

\* C14 as stated: when the raw text has no "{" or no "}", or its tokens from
\* the first "{" to the last "}" are not well-formed JSON, request_quiz_json
\* raises.
C14_RawTextWithoutObjectFails ==
    (output # NoOutput /\ NoObjectBetweenBraces(raw_output))
        => output.kind = "raised"

\* C14: when the text that remains after trimming and fence stripping has no
\* "{" or no "}", or its tokens from the first "{" to the last "}" are not
\* well-formed JSON, extraction returns None and request_quiz_json raises.
C14_RemainingTextWithoutObjectFails ==
    (output # NoOutput /\ NoObjectBetweenBraces(Remaining(raw_output)))
        => (output.kind = "raised" /\ extract_json(raw_output) = NoneValue)

\* A text that begins with a fence and whose last "}" precedes its first "{"
\* was refused.
C14_Witness ==
    /\ output # NoOutput
    /\ output.kind = "raised"
    /\ startswith_fence(raw_output)
    /\ find(Remaining(raw_output), "{") > rfind(Remaining(raw_output), "}")
    /\ rfind(Remaining(raw_output), "}") >= 0

\* The tokens that wrap a payload: prose, fences, the language tag, whitespace.
Wrapping == {"fence", "json", " ", "x"}

\* C15: when the raw text is a well-formed object wrapped in prose, fences and
\* whitespace, the value returned is the value extracted from the object
\* alone.
C15_WrappingKeepsPayload ==
    \A i \in 1..Len(raw_output) : \A j \in i..Len(raw_output) :
        (/\ output # NoOutput
         /\ \A k \in (1..(i - 1)) \cup ((j + 1)..Len(raw_output)) :
                raw_output[k] \in Wrapping
         /\ json_loads(SubSeq(raw_output, i, j)) # JSONDecodeError)
        => (/\ output.kind = "returned"
            /\ output.value = extract_json(SubSeq(raw_output, i, j)))

====
